---- MODULE Spec2Model ----
(***************************************************************************)
(* Model of create.py: the byte-quantity classes (ByteUnit, the two prefix *)
(* enumerations, Byte with from_str / __str__ / to_prefix / the two        *)
(* *_from_byte_count constructors) and the file-writing routines           *)
(* (write_bytes, create_files, _main_interface).                           *)
(*                                                                         *)
(* Strings are sequences of one-character strings.  Python floats are      *)
(* modelled exactly on the bounded domain: every quotient by 1024 is exact *)
(* in IEEE-754 double precision, and for quotients by 1000 the rounding    *)
(* error of the division is carried explicitly (see FracScaledHasRest).    *)
(***************************************************************************)
EXTENDS Integers, Sequences, FiniteSets, TLC

(***************************************************************************)
(* Bounds of the model.                                                    *)
(***************************************************************************)
\* longest arbitrary input string handed to Byte.from_str
MaxStrLen == 4
\* largest plain mantissa / multiplier drawn for structured inputs
MaxMantissa == 3
\* largest byte count the model computes with
MaxByteCount == 2000000000
\* power_count of to_str is kept modulo MaxPowerCount + 1: a loop that ends
\* takes at most 3 iterations for byte counts up to MaxByteCount (base >= 1000),
\* so the counter wraps only in a run of the loop that never ends
MaxPowerCount == 5
\* largest number_of_files, chunk size and file size handed to the writers
MaxFiles == 2
MaxChunk == 3
MaxTotal == 5

(***************************************************************************)
(* Program constants.                                                      *)
(***************************************************************************)
\* default of the `places` parameter of ByteUnit.to_str
places == 3
_decimal_prefix_length == 1
_binary_prefix_length == 2
_string_representation_group_count == 2

(***************************************************************************)
(* Characters and numerals.                                                *)
(***************************************************************************)
DigitChars == <<"0", "1", "2", "3", "4", "5", "6", "7", "8", "9">>
Digit == {DigitChars[i] : i \in 1..10}
DigitVal(c) == (CHOOSE i \in 1..10 : DigitChars[i] = c) - 1

RECURSIVE Pow(_, _)
Pow(x, k) == IF k = 0 THEN 1 ELSE x * Pow(x, k - 1)

\* x ** k modulo m, by repeated squaring
RECURSIVE PowMod(_, _, _)
PowMod(x, k, m) ==
    IF k = 0 THEN 1 % m
    ELSE LET half == PowMod(x, k \div 2, m)
         IN  (((half * half) % m) * (IF k % 2 = 1 THEN x ELSE 1)) % m

\* floor(log2(x)) for x >= 1
RECURSIVE ILog2(_)
ILog2(x) == IF x < 2 THEN 0 ELSE 1 + ILog2(x \div 2)

Abs(x) == IF x < 0 THEN -x ELSE x

\* f"{n}" for a non-negative int
RECURSIVE IntToDigits(_)
IntToDigits(n) ==
    IF n < 10 THEN <<DigitChars[n + 1]>>
    ELSE IntToDigits(n \div 10) \o <<DigitChars[(n % 10) + 1]>>

\* value of the first k characters of a sequence of ASCII digits
RECURSIVE DigitsToIntUpTo(_, _)
DigitsToIntUpTo(ds, k) ==
    IF k = 0 THEN 0 ELSE 10 * DigitsToIntUpTo(ds, k - 1) + DigitVal(ds[k])

\* int(ds) for a sequence of ASCII digits (0 for the empty sequence)
DigitsToInt(ds) == DigitsToIntUpTo(ds, Len(ds))

(***************************************************************************)
(* Units and prefix enumerations.                                          *)
(***************************************************************************)
\* ByteUnit(prefix, power, base=...); the derived field byte_count
\* (base ** power) is folded into Times, its only reader
ByteUnit(prefix, power, base) == [prefix |-> prefix, power |-> power, base |-> base]
DecimalByteUnit(prefix, power) == ByteUnit(prefix, power, 1000)
BinaryByteUnit(prefix, power) == ByteUnit(prefix, power, 1024)

BYTE == ByteUnit(<<"B">>, 0, 1)

Member(enum, name, value) == [enum |-> enum, name |-> name, value |-> value]

DecimalBytePrefix ==
    << Member("DecimalBytePrefix", "B", BYTE),
       Member("DecimalBytePrefix", "K", DecimalByteUnit(<<"K">>, 1)),
       Member("DecimalBytePrefix", "M", DecimalByteUnit(<<"M">>, 2)),
       Member("DecimalBytePrefix", "G", DecimalByteUnit(<<"G">>, 3)),
       Member("DecimalBytePrefix", "T", DecimalByteUnit(<<"T">>, 4)),
       Member("DecimalBytePrefix", "P", DecimalByteUnit(<<"P">>, 5)) >>

BinaryBytePrefix ==
    << Member("BinaryBytePrefix", "B", BYTE),
       Member("BinaryBytePrefix", "Ki", BinaryByteUnit(<<"K", "i">>, 1)),
       Member("BinaryBytePrefix", "Mi", BinaryByteUnit(<<"M", "i">>, 2)),
       Member("BinaryBytePrefix", "Gi", BinaryByteUnit(<<"G", "i">>, 3)),
       Member("BinaryBytePrefix", "Ti", BinaryByteUnit(<<"T", "i">>, 4)),
       Member("BinaryBytePrefix", "Pi", BinaryByteUnit(<<"P", "i">>, 5)) >>

AllMembers == {DecimalBytePrefix[i] : i \in 1..6} \cup {BinaryBytePrefix[i] : i \in 1..6}

\* result of a failed lookup (KeyError)
NoMember == Member("none", "none", ByteUnit(<<>>, 0, 0))

\* _UnitMeta.__getitem__ with an int key: first member whose power matches
UnitMetaGetByPower(cls, value) ==
    LET hits == {i \in 1..Len(cls) : cls[i].value.power = value}
    IN  IF hits = {} THEN NoMember
        ELSE cls[CHOOSE i \in hits : \A j \in hits : i <= j]

\* _UnitMeta.__getitem__ with a str key: first member whose prefix matches
UnitMetaGetByPrefix(cls, value) ==
    LET hits == {i \in 1..Len(cls) : cls[i].value.prefix = value}
    IN  IF hits = {} THEN NoMember
        ELSE cls[CHOOSE i \in hits : \A j \in hits : i <= j]

(***************************************************************************)
(* Byte values and outcomes of calls.                                      *)
(***************************************************************************)
Byte(count, member) == [byte_count |-> count, prefix |-> member]
NoByte == Byte(-1, NoMember)

\* dataclass-generated Byte.__eq__: field-wise comparison of
\* (byte_count, prefix); enum members compare by identity
ByteEq(x, y) == x.byte_count = y.byte_count /\ x.prefix = y.prefix

Returned(value) == [exc |-> "none", byte |-> value]
Raised(kind) == [exc |-> kind, byte |-> NoByte]

(***************************************************************************)
(* Byte.from_str.                                                          *)
(***************************************************************************)
\* any byte count above MaxByteCount
Huge == MaxByteCount + 1

SatMul(x, y) ==
    IF x = 0 \/ y = 0 THEN 0
    ELSE IF x > MaxByteCount \div y THEN Huge
    ELSE x * y

RECURSIVE SatPow(_, _)
SatPow(x, k) == IF k = 0 THEN 1 ELSE SatMul(x, SatPow(x, k - 1))

PrefixLetters == {"K", "M", "G", "T", "P"}

\* BYTE_RE.fullmatch(s) for r"^((?:[0-9]*.)?[0-9]+)([KMGTP]i?)?B$".
\* Group 1 ends in a digit and holds at most one character that is not a
\* digit (the unescaped `.` matches any character but a newline).  Group 2
\* is None (has_prefix = FALSE) when the optional group did not take part.
MantissaRE(g) ==
    /\ Len(g) >= 1
    /\ g[Len(g)] \in Digit
    /\ Cardinality({i \in 1..Len(g) : g[i] \notin Digit}) <= 1

NoMatch == [matched |-> FALSE, mantissa |-> <<>>, has_prefix |-> FALSE, prefix |-> <<>>]

BYTE_RE(s) ==
    LET n == Len(s) IN
    IF n < 2 \/ s[n] # "B" THEN NoMatch
    ELSE
      LET m == n - 1
          plen == IF s[m] \in PrefixLetters THEN 1
                  ELSE IF m >= 2 /\ s[m] = "i" /\ s[m - 1] \in PrefixLetters THEN 2
                  ELSE 0
          g1 == SubSeq(s, 1, m - plen)
      IN  IF MantissaRE(g1)
          THEN [matched |-> TRUE, mantissa |-> g1, has_prefix |-> plen > 0,
                prefix |-> SubSeq(s, m - plen + 1, m)]
          ELSE NoMatch

\* float(g) for a string g that matched group 1: the value is
\* sign * (whole + part / den), with whole saturated at Huge.
FloatValue(ok, neg, whole, part, den) ==
    [ok |-> ok, neg |-> neg, whole |-> whole, part |-> part, den |-> den]
FloatError == FloatValue(FALSE, FALSE, 0, 0, 1)

PyFloat(g) ==
    LET odd == {i \in 1..Len(g) : g[i] \notin Digit} IN
    IF odd = {} THEN FloatValue(TRUE, FALSE, DigitsToInt(g), 0, 1)
    ELSE
      LET at == CHOOSE i \in odd : TRUE
          c == g[at]
          pre == SubSeq(g, 1, at - 1)
          post == SubSeq(g, at + 1, Len(g))
      IN  CASE c = "." ->
                 FloatValue(TRUE, FALSE, DigitsToInt(pre), DigitsToInt(post), Pow(10, Len(post)))
            [] c \in {"e", "E"} ->
                 IF pre = <<>> THEN FloatError
                 ELSE FloatValue(TRUE, FALSE,
                                 SatMul(DigitsToInt(pre), SatPow(10, DigitsToInt(post))), 0, 1)
            [] c \in {"+", "-"} ->
                 IF pre # <<>> THEN FloatError
                 ELSE FloatValue(TRUE, c = "-", DigitsToInt(post), 0, 1)
            [] c = "_" ->
                 IF pre = <<>> THEN FloatError
                 ELSE FloatValue(TRUE, FALSE, DigitsToInt(pre \o post), 0, 1)
            [] c = " " ->
                 IF pre # <<>> THEN FloatError
                 ELSE FloatValue(TRUE, FALSE, DigitsToInt(post), 0, 1)
            [] OTHER -> FloatError

\* mantissa < 0 (float("-0") is -0.0, which is not below zero)
IsNegative(f) == f.neg /\ (f.whole > 0 \/ f.part > 0)

\* variant of BytePrefixFromStr that reads only the first letter of the
\* prefix and so never selects the binary table
BytePrefixFromStr_FirstLetter(m) ==
    IF ~m.has_prefix THEN [exc |-> "TypeError", member |-> NoMember]
    ELSE [exc |-> "none", member |-> UnitMetaGetByPrefix(DecimalBytePrefix, <<m.prefix[1]>>)]

\* BytePrefix.from_str: len(None) raises TypeError, a length other than
\* 1 or 2 raises ValueError, a failed lookup raises KeyError
BytePrefixFromStr(m) ==
    IF ~m.has_prefix THEN [exc |-> "TypeError", member |-> NoMember]
    ELSE
      LET found == IF Len(m.prefix) = _decimal_prefix_length
                     THEN UnitMetaGetByPrefix(DecimalBytePrefix, m.prefix)
                   ELSE IF Len(m.prefix) = _binary_prefix_length
                     THEN UnitMetaGetByPrefix(BinaryBytePrefix, m.prefix)
                   ELSE NoMember
      IN  IF Len(m.prefix) \notin {_decimal_prefix_length, _binary_prefix_length}
            THEN [exc |-> "ValueError", member |-> NoMember]
          ELSE IF found = NoMember THEN [exc |-> "KeyError", member |-> NoMember]
          ELSE [exc |-> "none", member |-> found]

\* (whole + part/den) * base ** power as [whole, part] over den, saturated
RECURSIVE Times(_, _, _, _, _)
Times(whole, part, den, base, power) ==
    IF power = 0 THEN [whole |-> whole, part |-> part]
    ELSE
      LET carry == (part * base) \div den
          w == IF whole = 0 THEN carry
               ELSE IF whole > (MaxByteCount - carry) \div base THEN Huge
               ELSE whole * base + carry
      IN  Times(w, (part * base) % den, den, base, power - 1)

\* round(x) for x = whole + part/den >= 0: ties go to the even integer
PyRound(x, den) ==
    IF x.whole > MaxByteCount THEN Huge
    ELSE IF 2 * x.part > den \/ (2 * x.part = den /\ x.whole % 2 = 1) THEN x.whole + 1
    ELSE x.whole

\* len(match.groups()): the number of capture groups of BYTE_RE
GroupCount == 2

from_str(s) ==
    LET match == BYTE_RE(s) IN
    IF ~match.matched THEN Raised("ValueError")
    ELSE IF GroupCount # _string_representation_group_count THEN Raised("ValueError")
    ELSE
      LET mantissa == PyFloat(match.mantissa) IN
      IF ~mantissa.ok THEN Raised("ValueError")
      ELSE IF IsNegative(mantissa) THEN Raised("ValueError")
      ELSE
        LET prefix == BytePrefixFromStr(match) IN
        IF prefix.exc # "none" THEN Raised(prefix.exc)
        ELSE
          LET unit == prefix.member.value
              byte_count == PyRound(Times(mantissa.whole, mantissa.part, mantissa.den,
                                          unit.base, unit.power), mantissa.den)
          IN  Returned(Byte(byte_count, prefix.member))

(***************************************************************************)
(* Byte.decimal_from_byte_count / binary_from_byte_count.                  *)
(***************************************************************************)
\* the while loop of _from_byte_count on rem = whole + (a fraction that is
\* nonzero iff inexact): number of divisions until rem <= base
RECURSIVE FromByteCountPower(_, _, _)
FromByteCountPower(base, whole, inexact) ==
    IF whole > base \/ (whole = base /\ inexact)
      THEN 1 + FromByteCountPower(base, whole \div base, inexact \/ whole % base # 0)
    ELSE 0

from_byte_count(t, base, v) ==
    LET power_count_ == FromByteCountPower(base, v, FALSE)
        found == UnitMetaGetByPower(t, power_count_)
    IN  IF found = NoMember THEN Raised("KeyError") ELSE Returned(Byte(v, found))

decimal_from_byte_count(v) == from_byte_count(DecimalBytePrefix, 1000, v)
binary_from_byte_count(v) == from_byte_count(BinaryBytePrefix, 1024, v)

(***************************************************************************)
(* ByteUnit.to_str, the body of Byte.__str__.                              *)
(*                                                                         *)
(* frac is held as its numerator over base: the float (rem / base) % 1 of  *)
(* the last iteration is frac / base up to the rounding of the division.   *)
(***************************************************************************)
\* (10**places * frac) % 1 > 0 in double precision, after an iteration that
\* left the quotient q with numerator r.
\*   base 1 : frac is 0.0.
\*   base 1024 : r / 1024 and 1000 * r / 1024 are exact.
\*   base 1000 : with e = floor(log2 q), the division rounds the fraction to
\*     a multiple of 2^(e-52), so 1000 * frac is exactly r + delta * 2^(e-49)
\*     with delta the residue of -(r * 2^(49-e)) modulo 125 of least
\*     magnitude; the product rounds to the integer r iff that error is at
\*     most half the gap between doubles next to r.
FracScaledHasRest(base, q, r) ==
    IF r = 0 THEN FALSE
    ELSE IF base = 1000 THEN
      LET qexp == ILog2(q)
          rexp == ILog2(r)
          residue == (125 - ((r * PowMod(2, 49 - qexp, 125)) % 125)) % 125
          delta == IF residue > 62 THEN residue - 125 ELSE residue
          shift == IF delta < 0 /\ r = Pow(2, rexp) THEN 5 ELSE 4
      IN  delta # 0 /\ Abs(delta) * Pow(2, qexp + shift) > Pow(2, rexp)
    ELSE (Pow(10, places) * r) % base # 0

\* n written with exactly `width` digits
RECURSIVE ZeroPad(_, _)
ZeroPad(n, width) ==
    IF width = 0 THEN <<>>
    ELSE ZeroPad(n \div 10, width - 1) \o <<DigitChars[(n % 10) + 1]>>

\* f"{rem + frac:.{places}f}": nearest multiple of 10**-places, ties to even
Fixed(q, r, base) ==
    LET scaled == Pow(10, places) * r
        low == scaled \div base
        rest == scaled % base
        t == IF 2 * rest > base \/ (2 * rest = base /\ low % 2 = 1) THEN low + 1 ELSE low
    IN  IntToDigits(q + (t \div Pow(10, places))) \o <<".">>
          \o ZeroPad(t % Pow(10, places), places)

\* lines 81-87: the string built once the loop has ended
ToStrOut(unit, q, r) ==
    IF FracScaledHasRest(unit.base, q, r)
      THEN Fixed(q, r, unit.base) \o unit.prefix \o <<"B">>
    ELSE IntToDigits(q) \o unit.prefix \o <<"B">>

(***************************************************************************)
(* Inputs.                                                                 *)
(***************************************************************************)
Alphabet == {"0", "1", "5", ".", "-", "+", "e", "_", " ", "K", "M", "i", "B"}
ArbitraryStrings == UNION {[1..k -> Alphabet] : k \in 0..MaxStrLen}

Suffixes == {<<"B">>} \cup {m.value.prefix \o <<"B">> : m \in AllMembers \ {DecimalBytePrefix[1], BinaryBytePrefix[1]}}
PlainMantissas == (0..MaxMantissa) \cup {10, 256, 999, 1000, 1023, 1024, 1025, 5000}
FractionMantissas ==
    { <<"0", ".", "5">>, <<"1", ".", "5">>, <<"1", ".", "0", "0", "1">>,
      <<"1", ".", "4", "3", "0">>, <<"9", "7", "6", ".", "5", "6", "3">>,
      <<"1", "0", "2", "4", ".", "0", "0", "1">> }
SizeStrings ==
    {m \o x : m \in {IntToDigits(i) : i \in PlainMantissas} \cup FractionMantissas, x \in Suffixes}

ByteCounts ==
    {0, 1500, 1234567, 1500000, 1500001} \cup
    { c \in { SatMul(m, SatPow(base, p)) + d :
                m \in 1..MaxMantissa, base \in {1000, 1024}, p \in 0..3, d \in {-1, 0, 1} } :
        c <= MaxByteCount }

(***************************************************************************)
(* State.                                                                  *)
(***************************************************************************)
VARIABLES
    pc,          \* control location
    call,        \* the entry point under execution
    v_count,     \* int argument of *_from_byte_count
    v_str,       \* str argument of Byte.from_str
    exc,         \* exception raised by the entry point ("none" if it returned)
    b,           \* the Byte in hand
    orig,        \* the Byte to_prefix was applied to
    power_count, \* locals of to_str
    rem,
    frac,
    out,         \* str(b)
    again,       \* outcome of Byte.from_str(str(b))
    number_of_files,      \* arguments of _main_interface / create_files / write_bytes
    chunk_size,
    byte_count_total,
    made_dir,             \* the output directory has been created
    opened,               \* number of files opened so far
    remaining_byte_count, \* local of write_bytes
    writes                \* sizes of the chunks written to the file in hand

byteVars == <<v_count, v_str, b, orig, power_count, rem, frac, out, again>>
ioVars == <<number_of_files, chunk_size, byte_count_total, made_dir, opened,
            remaining_byte_count, writes>>
vars == <<pc, call, exc, byteVars, ioVars>>

NoOutcome == Returned(NoByte)

ByteIdle ==
    /\ v_count = 0
    /\ v_str = <<>>
    /\ b = NoByte
    /\ orig = NoByte
    /\ power_count = 0
    /\ rem = 0
    /\ frac = 0
    /\ out = <<>>
    /\ again = NoOutcome

IOIdle ==
    /\ number_of_files = 0
    /\ chunk_size = 0
    /\ byte_count_total = 0
    /\ made_dir = FALSE
    /\ opened = 0
    /\ remaining_byte_count = 0
    /\ writes = <<>>

Init ==
    /\ pc = "call"
    /\ \/ call = "from_str" /\ v_count = 0 /\ v_str \in ArbitraryStrings \cup SizeStrings
       \/ call \in {"decimal_from_byte_count", "binary_from_byte_count"}
            /\ v_count \in ByteCounts /\ v_str = <<>>
    /\ exc = "none"
    /\ b = NoByte
    /\ orig = NoByte
    /\ power_count = 0
    /\ rem = 0
    /\ frac = 0
    /\ out = <<>>
    /\ again = NoOutcome
    /\ IOIdle

Enter(r) ==
    /\ exc' = r.exc
    /\ b' = r.byte
    /\ pc' = IF r.exc = "none" THEN "byte" ELSE "raised"
    /\ UNCHANGED <<call, v_count, v_str, orig, power_count, rem, frac, out, again, ioVars>>

CallFromStr == pc = "call" /\ call = "from_str" /\ Enter(from_str(v_str))

CallDecimalFromByteCount ==
    pc = "call" /\ call = "decimal_from_byte_count" /\ Enter(decimal_from_byte_count(v_count))

CallBinaryFromByteCount ==
    pc = "call" /\ call = "binary_from_byte_count" /\ Enter(binary_from_byte_count(v_count))

\* Byte.to_prefix
to_prefix(self, prefix) == Byte(self.byte_count, prefix)

ToPrefix ==
    /\ pc = "byte"
    /\ orig = NoByte
    /\ \E prefix \in AllMembers :
         /\ b' = to_prefix(b, prefix)
         /\ orig' = b
    /\ UNCHANGED <<pc, call, v_count, v_str, exc, power_count, rem, frac, out, again, ioVars>>

\* Byte.__str__ enters to_str with _b = byte_count (lines 73-75)
ToStrEnter ==
    /\ pc = "byte"
    /\ b.byte_count <= MaxByteCount
    /\ power_count' = 0
    /\ rem' = b.byte_count
    /\ frac' = 0
    /\ pc' = "to_str"
    /\ UNCHANGED <<call, v_count, v_str, exc, b, orig, out, again, ioVars>>

\* one iteration of `while rem > self.base` (lines 76-79)
ToStrLoop ==
    /\ pc = "to_str"
    /\ rem > b.prefix.value.base
    /\ frac' = rem % b.prefix.value.base
    /\ rem' = rem \div b.prefix.value.base
    /\ power_count' = (power_count + 1) % (MaxPowerCount + 1)
    /\ UNCHANGED <<pc, call, v_count, v_str, exc, b, orig, out, again, ioVars>>

\* loop exit and lines 81-87
ToStrReturn ==
    /\ pc = "to_str"
    /\ rem <= b.prefix.value.base
    /\ out' = ToStrOut(b.prefix.value, rem, frac)
    /\ pc' = "str"
    /\ UNCHANGED <<call, v_count, v_str, exc, b, orig, power_count, rem, frac, again, ioVars>>

\* Byte.from_str applied to the formatted string
Reparse ==
    /\ pc = "str"
    /\ again' = from_str(out)
    /\ pc' = "done"
    /\ UNCHANGED <<call, v_count, v_str, exc, b, orig, power_count, rem, frac, out, ioVars>>

Next ==
    \/ CallFromStr
    \/ CallDecimalFromByteCount
    \/ CallBinaryFromByteCount
    \/ ToPrefix
    \/ ToStrEnter
    \/ ToStrLoop
    \/ ToStrReturn
    \/ Reparse

Spec == Init /\ [][Next]_vars

\* building a Byte from a byte count and formatting it: a sequential program
\* takes its next step whenever it has one
InitCount == Init /\ call # "from_str"

NextFormat ==
    \/ CallDecimalFromByteCount
    \/ CallBinaryFromByteCount
    \/ ToPrefix
    \/ ToStrEnter
    \/ ToStrLoop
    \/ ToStrReturn

FairSpec == InitCount /\ [][NextFormat]_vars /\ WF_vars(NextFormat)

(***************************************************************************)
(* write_bytes, create_files and _main_interface.                          *)
(***************************************************************************)
Min(x, y) == IF x <= y THEN x ELSE y

RECURSIVE SumSeq(_)
SumSeq(s) == IF s = <<>> THEN 0 ELSE s[1] + SumSeq(Tail(s))

\* variant of ChunkByteCount that always writes a full chunk
ChunkByteCount_Full(remaining, chunk) == chunk

\* line 266: chunk_byte_count = min(remaining_byte_count, chunk_size)
ChunkByteCount(remaining, chunk) == Min(remaining, chunk)

\* variant of Validate that leaves out the check of the chunk size
Validate_NoChunkCheck(files, chunk, total) ==
    IF files = 0 THEN "return"
    ELSE IF files < 0 THEN "ValueError"
    ELSE IF total <= 0 THEN "ValueError"
    ELSE "ok"

\* lines 362-377 of _main_interface: the checks on the parsed arguments, in
\* program order
Validate(files, chunk, total) ==
    IF files = 0 THEN "return"
    ELSE IF files < 0 THEN "ValueError"
    ELSE IF chunk <= 0 THEN "ValueError"
    ELSE IF total <= 0 THEN "ValueError"
    ELSE "ok"

\* the state once parser.parse_args() has returned (line 360): chunk and file
\* size are Bytes made by Byte.from_str or the defaults, so never negative;
\* or a direct call of write_bytes
InitIO ==
    /\ pc = "call"
    /\ exc = "none"
    /\ ByteIdle
    /\ made_dir = FALSE
    /\ opened = 0
    /\ remaining_byte_count = 0
    /\ writes = <<>>
    /\ \/ /\ call = "_main_interface"
          /\ number_of_files \in -1..MaxFiles
          /\ chunk_size \in 0..MaxChunk
          /\ byte_count_total \in 0..MaxTotal
       \/ /\ call = "write_bytes"
          /\ number_of_files = 0
          /\ chunk_size \in 1..MaxChunk
          /\ byte_count_total \in 0..MaxTotal

\* _main_interface, lines 362-377
MainValidate ==
    /\ pc = "call"
    /\ call = "_main_interface"
    /\ LET v == Validate(number_of_files, chunk_size, byte_count_total) IN
         /\ pc' = CASE v = "return" -> "returned"
                    [] v = "ok" -> "mkdir"
                    [] OTHER -> "raised"
         /\ exc' = IF v \in {"return", "ok"} THEN "none" ELSE v
    /\ UNCHANGED <<call, byteVars, ioVars>>

\* _main_interface, lines 379-380
MainMkdir ==
    /\ pc = "mkdir"
    /\ made_dir' = TRUE
    /\ pc' = "create_files"
    /\ UNCHANGED <<call, exc, byteVars, number_of_files, chunk_size, byte_count_total,
                   opened, remaining_byte_count, writes>>

\* create_files, lines 242-250: next file opened and write_bytes entered
\* (line 264)
CreateFilesOpen ==
    /\ pc = "create_files"
    /\ opened < number_of_files
    /\ opened' = opened + 1
    /\ remaining_byte_count' = byte_count_total
    /\ writes' = <<>>
    /\ pc' = "write_bytes"
    /\ UNCHANGED <<call, exc, byteVars, number_of_files, chunk_size, byte_count_total, made_dir>>

\* create_files: range(number_of_files) exhausted; _main_interface returns
CreateFilesReturn ==
    /\ pc = "create_files"
    /\ opened >= number_of_files
    /\ pc' = "returned"
    /\ UNCHANGED <<call, exc, byteVars, ioVars>>

\* direct call of write_bytes, line 264
WriteBytesEnter ==
    /\ pc = "call"
    /\ call = "write_bytes"
    /\ remaining_byte_count' = byte_count_total
    /\ writes' = <<>>
    /\ pc' = "write_bytes"
    /\ UNCHANGED <<call, exc, byteVars, number_of_files, chunk_size, byte_count_total,
                   made_dir, opened>>

\* one iteration of `while remaining_byte_count > 0` (lines 265-270)
WriteBytesLoop ==
    /\ pc = "write_bytes"
    /\ remaining_byte_count > 0
    /\ LET chunk_byte_count == ChunkByteCount(remaining_byte_count, chunk_size) IN
         /\ remaining_byte_count' = remaining_byte_count - chunk_byte_count
         /\ writes' = Append(writes, chunk_byte_count)
    /\ UNCHANGED <<pc, call, exc, byteVars, number_of_files, chunk_size, byte_count_total,
                   made_dir, opened>>

\* loop exit: back to create_files (the file is closed) or to the caller
WriteBytesReturn ==
    /\ pc = "write_bytes"
    /\ remaining_byte_count <= 0
    /\ pc' = IF call = "write_bytes" THEN "returned" ELSE "create_files"
    /\ UNCHANGED <<call, exc, byteVars, ioVars>>

NextIO ==
    \/ MainValidate
    \/ MainMkdir
    \/ CreateFilesOpen
    \/ CreateFilesReturn
    \/ WriteBytesEnter
    \/ WriteBytesLoop
    \/ WriteBytesReturn

SpecIO == InitIO /\ [][NextIO]_vars

FairSpecIO == InitIO /\ [][NextIO]_vars /\ WF_vars(NextIO)

(***************************************************************************)
(* Properties.                                                             *)
(***************************************************************************)
FromCount == call \in {"decimal_from_byte_count", "binary_from_byte_count"}

\* the entry point has just completed and to_prefix has not been applied
JustCalled == pc \in {"byte", "raised"} /\ orig = NoByte

\* C1: for every non-negative n and both tables, building a Byte from n,
\* formatting it and parsing the string again yields a Byte whose byte_count
\* is n.
C1_RoundTripOnValue ==
    (FromCount /\ orig = NoByte /\ pc = "done")
      => (again.exc = "none" /\ again.byte.byte_count = v_count)

\* C2: formatting is total: for every Byte with a non-negative byte_count and
\* any prefix of either table (the shared unit B included), to_str terminates
\* and returns a string.
C2_FormatTotal == (pc = "to_str") ~> (pc = "str")

\* C3: for every string s accepted by Byte.from_str, parsing s, formatting
\* the Byte (which keeps the prefix of s) and parsing the result again yields
\* the byte_count of the first parse.
C3_StableRoundTrip ==
    (call = "from_str" /\ orig = NoByte /\ pc = "done")
      => (again.exc = "none" /\ again.byte.byte_count = b.byte_count)

\* C4: under the binary table, formatting a Byte built from byte count 1024
\* yields "1024B" and formatting one built from 1023 yields "1023B".
C4_BoundaryFormat ==
    \A n \in {1023, 1024} :
      (pc = "to_str" /\ call = "binary_from_byte_count" /\ v_count = n /\ orig = NoByte)
        ~> (pc = "str" /\ out = IntToDigits(n) \o <<"B">>)

\* m * base ** power, any value above MaxByteCount being Huge
RECURSIVE ScaledCount(_, _, _)
ScaledCount(m, base, power) ==
    IF power = 0 THEN m ELSE ScaledCount(SatMul(m, base), base, power - 1)

PrefixLetterOf == <<"K", "M", "G", "T", "P">>

C6_BareBytes ==
    (call = "from_str" /\ JustCalled) =>
      \A m \in PlainMantissas :
        v_str = IntToDigits(m) \o <<"B">>
          => (exc = "none" /\ b.byte_count = m /\ b.prefix.value = BYTE)

\* the size grammar: digits with an optional decimal point, an optional
\* prefix and a mandatory "B"; white space is ignored
StripSpaces(s) == SelectSeq(s, LAMBDA c : c # " ")
MantissaForm(g) ==
    /\ Len(g) >= 1
    /\ g[Len(g)] \in Digit
    /\ \A i \in 1..Len(g) : g[i] \in Digit \cup {"."}
    /\ Cardinality({i \in 1..Len(g) : g[i] = "."}) <= 1
SizeGrammar(s) ==
    LET x == StripSpaces(s) IN
    \E k \in 1..Len(x) :
      /\ MantissaForm(SubSeq(x, 1, k))
      /\ SubSeq(x, k + 1, Len(x)) \in Suffixes

\* C7: Byte.from_str raises on "", "100", "KB" and "-5B", and every string
\* that is not <non-negative decimal mantissa><optional prefix>B ends in an
\* error, never in a Byte.
C7_MalformedRejected ==
    (call = "from_str" /\ pc # "call")
      => /\ v_str \in {<<>>, <<"1", "0", "0">>, <<"K", "B">>, <<"-", "5", "B">>}
              => exc = "ValueError"
         /\ ~SizeGrammar(v_str) => exc # "none"

\* C8: two Bytes compare equal iff their byte_count integers are equal,
\* whatever their prefixes; Byte.to_prefix returns a value equal to the
\* original.
C8_EqualityByValue ==
    orig # NoByte => (ByteEq(b, orig) <=> b.byte_count = orig.byte_count)

\* the chunks written so far by the call of write_bytes in hand
InWriteBytes == pc = "write_bytes"
WriteBytesDone ==
    \/ call = "write_bytes" /\ pc = "returned"
    \/ call = "_main_interface" /\ pc \in {"create_files", "returned"} /\ opened > 0

\* C9: for chunk_size >= 1 and total_byte_count >= 0, write_bytes terminates;
\* every write carries between 1 and chunk_size bytes, the running sum never
\* exceeds the total, all writes but the last are full chunks, and on return
\* the sum is the total.
C9_ChunksInRange ==
    (InWriteBytes \/ WriteBytesDone) =>
      /\ \A i \in 1..Len(writes) : 1 <= writes[i] /\ writes[i] <= chunk_size
      /\ \A i \in 1..(Len(writes) - 1) : writes[i] = chunk_size
      /\ SumSeq(writes) <= byte_count_total
      /\ WriteBytesDone => SumSeq(writes) = byte_count_total

C9_ChunkedWriteExact == []C9_ChunksInRange /\ (InWriteBytes ~> WriteBytesDone)

C9_Witness ==
    /\ call = "write_bytes" /\ pc = "returned"
    /\ Len(writes) >= 2
    /\ writes[Len(writes)] < chunk_size
    /\ SumSeq(writes) = byte_count_total

NothingCreated == ~made_dir /\ opened = 0

C10_EffectsAfterChecks ==
    /\ (made_dir \/ opened > 0)
         => (number_of_files > 0 /\ chunk_size >= 1 /\ byte_count_total >= 1)
    /\ pc = "raised" => NothingCreated
    /\ number_of_files = 0 => (pc = "returned" /\ exc = "none" /\ NothingCreated)
    /\ InWriteBytes => chunk_size >= 1

\* C10 as stated: the directory is made and files are opened only once all
\* three checks have passed; a negative number_of_files, a chunk size <= 0 or
\* a file size <= 0 ends in an error with nothing created; number_of_files = 0
\* returns with nothing created; write_bytes is reached only with
\* chunk_size >= 1.
C10_ValidationFirst ==
    (call = "_main_interface" /\ pc # "call") =>
      /\ C10_EffectsAfterChecks
      /\ (number_of_files < 0 \/ chunk_size <= 0 \/ byte_count_total <= 0)
           => (pc = "raised" /\ exc = "ValueError")

\* C10, amended: as above, except that a chunk size <= 0 or a file size <= 0
\* ends in an error only when number_of_files is not 0; number_of_files = 0
\* returns before the sizes are looked at.
C10_ValidationFirstAmended ==
    (call = "_main_interface" /\ pc # "call") =>
      /\ C10_EffectsAfterChecks
      /\ (number_of_files < 0
            \/ (number_of_files > 0 /\ (chunk_size <= 0 \/ byte_count_total <= 0)))
           => (pc = "raised" /\ exc = "ValueError")

C10_Witness ==
    /\ call = "_main_interface" /\ pc = "raised" /\ exc = "ValueError"
    /\ number_of_files > 0
    /\ chunk_size = 0
    /\ NothingCreated

====
